---- MODULE Spec2Model ----
(***************************************************************************)
(* Leader election on a ring (viluon/gprc-le, src/src/main.rs).            *)
(*                                                                         *)
(* Every node runs a gRPC server (probe_raw, notify_elected_raw) and a     *)
(* client loop (node_client).  Both share the node's NodeState behind a    *)
(* tokio Mutex.  Every call is sent from its own spawned task, so messages *)
(* in flight are an unordered bag, and every request is served by its own  *)
(* handler task, so handlers of one node run concurrently.                 *)
(***************************************************************************)
EXTENDS Integers, Sequences, FiniteSets, Bags, TLC

(* Rings the coordinator is started with: the line of ids read by main(),  *)
(* in ring order.                                                          *)
Rings == { <<7>>, <<1, 2>>, <<2, 1>> }

(* Rings of three nodes, on which the left and the right neighbour differ. *)
LongRings == { <<1, 2, 3>>, <<1, 3, 2>> }

(* Cap on the phase counter (u64 in the source).                           *)
MaxPhase == 3

(* Cap on the phase counter on the rings of three nodes.                   *)
MaxPhaseLong == 1

VARIABLES
    ring,       \* node_ids of main(): ring[i] is the id of the node at index i
    state,      \* state[i]: the NodeState behind node i's Mutex
    lock,       \* lock[i]: the probe handler that holds node i's MutexGuard across its sleep, or NoHolder
    client,     \* client[i]: whether node i's node_client loop is still running
    net,        \* bag of requests sent and not yet taken up by the receiving server
    handlers,   \* bag of probe handlers that have passed the forwarding step and are in their lock loop
    panics      \* set of the panics raised so far (records node, op)

vars == << ring, state, lock, client, net, handlers, panics >>

----------------------------------------------------------------------------
(* NodeState *)

None == 0

Candidate(phase, last_phase_probed) ==
    [kind |-> "Candidate", phase |-> phase, last_phase_probed |-> last_phase_probed]

Defeated(leader) == [kind |-> "Defeated", leader |-> leader]

Leader == [kind |-> "Leader"]

NodeStateDefault == Candidate(1, 0)

NoHolder == [kind |-> "NoHolder"]

Nodes == 1 .. Len(ring)

PhaseCap == IF Len(ring) > 2 THEN MaxPhaseLong ELSE MaxPhase

(* main(): node i's left_addr is the address of node_ids[(len + i - 1) % len] and its   *)
(* right_addr that of node_ids[(i + 1) % len]  (indices here are 1-based).            *)
LeftOf(i) == ((Len(ring) + (i - 1) - 1) % Len(ring)) + 1

RightOf(i) == (((i - 1) + 1) % Len(ring)) + 1

(* Addr with the two neighbours mixed up. *)
AddrTurned(i, headed_left) == IF headed_left THEN RightOf(i) ELSE LeftOf(i)

Addr(i, headed_left) == IF headed_left THEN LeftOf(i) ELSE RightOf(i)

ProbeMessage(dst, sender_id, headed_left, phase) ==
    [type |-> "Probe", dst |-> dst, sender_id |-> sender_id,
     headed_left |-> headed_left, phase |-> phase]

NotifyMessage(dst, leader_id, headed_left) ==
    [type |-> "Notify", dst |-> dst, leader_id |-> leader_id, headed_left |-> headed_left]

Send(bag, msg) == bag (+) SetToBag({msg})

Take(bag, msg) == bag (-) SetToBag({msg})

----------------------------------------------------------------------------
(* impl Node: each operation yields the new NodeState, or the old one together with a panic. *)

NextPhasePanics(s) == s.kind # "Candidate" \/ s.last_phase_probed # s.phase

(* NextPhase with the probed phase reset to its initial value. *)
NextPhaseResetsProbed(s) ==
    IF NextPhasePanics(s) THEN s ELSE Candidate(s.phase + 1, 0)

(* NextPhase skipping a phase. *)
NextPhaseSkips(s) ==
    IF NextPhasePanics(s) THEN s ELSE Candidate(s.phase + 2, s.last_phase_probed)

NextPhase(s) ==
    IF NextPhasePanics(s) THEN s ELSE Candidate(s.phase + 1, s.last_phase_probed)

DefeatPanics(s) == s.kind = "Leader"

Defeat(s) ==
    CASE s.kind = "Candidate" -> Defeated(None)
      [] s.kind = "Defeated"  -> s
      [] s.kind = "Leader"    -> s

(* DefeatWithLeader without the arm that panics on a Leader. *)
DefeatWithLeaderAny(s, leader) == Defeated(leader)

(* DefeatWithLeader recording the defeat without the leader. *)
DefeatWithLeaderDropsLeader(s, leader) == Defeat(s)

DefeatWithLeader(s, leader) ==
    CASE s.kind = "Candidate" -> Defeated(leader)
      [] s.kind = "Defeated"  -> Defeated(leader)
      [] s.kind = "Leader"    -> s

LeadPanics(s) == s.kind = "Defeated"

Lead(s) ==
    CASE s.kind = "Leader"    -> s
      [] s.kind = "Candidate" -> Leader
      [] s.kind = "Defeated"  -> s

----------------------------------------------------------------------------
Init ==
    /\ ring \in Rings
    /\ state = [i \in Nodes |-> NodeStateDefault]
    /\ lock = [i \in Nodes |-> NoHolder]
    /\ client = [i \in Nodes |-> "run"]
    /\ net = EmptyBag
    /\ handlers = EmptyBag
    /\ panics = {}

(* The same start, on every ring up to three nodes. *)
InitWide ==
    /\ ring \in Rings \cup LongRings
    /\ state = [i \in Nodes |-> NodeStateDefault]
    /\ lock = [i \in Nodes |-> NoHolder]
    /\ client = [i \in Nodes |-> "run"]
    /\ net = EmptyBag
    /\ handlers = EmptyBag
    /\ panics = {}

(* ClientProbe with the parity of the direction inverted. *)
ClientProbeOddLeft(i) ==
    /\ client[i] = "run"
    /\ lock[i] = NoHolder
    /\ state[i].kind = "Candidate"
    /\ state[i].last_phase_probed # state[i].phase
    /\ LET phase == state[i].phase
           headed_left == (phase % 2 = 1)
       IN  /\ state' = [state EXCEPT ![i] = Candidate(phase, phase)]
           /\ net' = Send(net, ProbeMessage(Addr(i, headed_left), ring[i], headed_left, phase))
    /\ UNCHANGED << ring, lock, client, handlers, panics >>

(* node_client, arm Candidate with last_phase_probed != phase: mark the phase probed and *)
(* send this node's probe, to the left when the phase is even, else to the right.        *)
ClientProbe(i) ==
    /\ client[i] = "run"
    /\ lock[i] = NoHolder
    /\ state[i].kind = "Candidate"
    /\ state[i].last_phase_probed # state[i].phase
    /\ LET phase == state[i].phase
           headed_left == (phase % 2 = 0)
       IN  /\ state' = [state EXCEPT ![i] = Candidate(phase, phase)]
           /\ net' = Send(net, ProbeMessage(Addr(i, headed_left), ring[i], headed_left, phase))
    /\ UNCHANGED << ring, lock, client, handlers, panics >>

(* node_client, arm Candidate otherwise: the phase is probed already, nothing is done. *)
ClientWait(i) ==
    /\ client[i] = "run"
    /\ lock[i] = NoHolder
    /\ state[i].kind = "Candidate"
    /\ state[i].last_phase_probed = state[i].phase
    /\ UNCHANGED vars

(* ClientDefeated sending one more probe before the loop ends. *)
ClientDefeatedProbes(i) ==
    /\ client[i] = "run"
    /\ lock[i] = NoHolder
    /\ state[i].kind = "Defeated"
    /\ client' = [client EXCEPT ![i] = "done"]
    /\ net' = Send(net, ProbeMessage(RightOf(i), ring[i], FALSE, 1))
    /\ UNCHANGED << ring, state, lock, handlers, panics >>

(* node_client, arm Defeated: the loop ends. *)
ClientDefeated(i) ==
    /\ client[i] = "run"
    /\ lock[i] = NoHolder
    /\ state[i].kind = "Defeated"
    /\ client' = [client EXCEPT ![i] = "done"]
    /\ UNCHANGED << ring, state, lock, net, handlers, panics >>

(* ClientLeader with the notification to the right neighbour sent as well. *)
ClientLeaderBothWays(i) ==
    /\ client[i] = "run"
    /\ lock[i] = NoHolder
    /\ state[i].kind = "Leader"
    /\ net' = Send(Send(net, NotifyMessage(LeftOf(i), ring[i], TRUE)),
                   NotifyMessage(RightOf(i), ring[i], FALSE))
    /\ client' = [client EXCEPT ![i] = "done"]
    /\ UNCHANGED << ring, state, lock, handlers, panics >>

(* node_client, arm Leader: notify the left neighbour, then the loop ends. *)
ClientLeader(i) ==
    /\ client[i] = "run"
    /\ lock[i] = NoHolder
    /\ state[i].kind = "Leader"
    /\ net' = Send(net, NotifyMessage(LeftOf(i), ring[i], TRUE))
    /\ client' = [client EXCEPT ![i] = "done"]
    /\ UNCHANGED << ring, state, lock, handlers, panics >>

node_client(i) == ClientProbe(i) \/ ClientWait(i) \/ ClientDefeated(i) \/ ClientLeader(i)

Handler(msg) ==
    [node |-> msg.dst, sender_id |-> msg.sender_id,
     headed_left |-> msg.headed_left, phase |-> msg.phase]

(* ProbeReceive without the test of the sender: a node's own probe is forwarded too. *)
ProbeReceiveForwardsAll(msg) ==
    /\ BagIn(msg, net)
    /\ msg.type = "Probe"
    /\ net' = Send(Take(net, msg),
                   ProbeMessage(Addr(msg.dst, msg.headed_left), msg.sender_id,
                                msg.headed_left, msg.phase))
    /\ handlers' = IF state[msg.dst].kind = "Candidate"
                     THEN Send(handlers, Handler(msg))
                     ELSE handlers
    /\ UNCHANGED << ring, state, lock, client, panics >>

(* probe_raw, first part: a probe whose sender is another node is forwarded in the  *)
(* direction it travels, whatever this node's state; then the handler goes for the    *)
(* lock.  On a Defeated or Leader node (whose lock is free, and whose role is final)  *)
(* the loop's arm `_` ends the handler at once.                                       *)
ProbeReceive(msg) ==
    /\ BagIn(msg, net)
    /\ msg.type = "Probe"
    /\ net' = IF msg.sender_id # ring[msg.dst]
                THEN Send(Take(net, msg),
                          ProbeMessage(Addr(msg.dst, msg.headed_left), msg.sender_id,
                                       msg.headed_left, msg.phase))
                ELSE Take(net, msg)
    /\ handlers' = IF state[msg.dst].kind = "Candidate"
                     THEN Send(handlers, Handler(msg))
                     ELSE handlers
    /\ UNCHANGED << ring, state, lock, client, panics >>

(* CompareOp with the arms of Equal and Greater swapped. *)
CompareOpSwapped(id, sender_id) ==
    CASE id < sender_id -> "next_phase"
      [] id = sender_id -> "defeat"
      [] id > sender_id -> "lead"

(* probe_raw, lock loop: the operation the comparison of the ids selects. *)
CompareOp(id, sender_id) ==
    CASE id < sender_id -> "next_phase"
      [] id = sender_id -> "lead"
      [] id > sender_id -> "defeat"

Apply(op, s) ==
    CASE op = "next_phase" -> NextPhase(s)
      [] op = "lead"       -> Lead(s)
      [] op = "defeat"     -> Defeat(s)

Panics(op, s) ==
    CASE op = "next_phase" -> NextPhasePanics(s)
      [] op = "lead"       -> LeadPanics(s)
      [] op = "defeat"     -> DefeatPanics(s)

(* ProbeCompare acting only on a probe of the node's current phase; any other is dropped. *)
ProbeCompareCurrentOnly(h) ==
    /\ BagIn(h, handlers)
    /\ lock[h.node] = NoHolder
    /\ state[h.node].kind = "Candidate"
    /\ state[h.node].phase = state[h.node].last_phase_probed
    /\ LET s == state[h.node]
           op == CompareOp(ring[h.node], h.sender_id)
       IN  /\ op = "next_phase" => s.phase < PhaseCap
           /\ state' = [state EXCEPT ![h.node] =
                          IF h.phase = s.phase THEN Apply(op, s) ELSE s]
    /\ handlers' = Take(handlers, h)
    /\ UNCHANGED << ring, lock, client, net, panics >>

(* probe_raw, lock loop, arm Candidate with phase == last_phase_probed: compare ids. *)
ProbeCompare(h) ==
    /\ BagIn(h, handlers)
    /\ lock[h.node] = NoHolder
    /\ state[h.node].kind = "Candidate"
    /\ state[h.node].phase = state[h.node].last_phase_probed
    /\ LET s == state[h.node]
           op == CompareOp(ring[h.node], h.sender_id)
       IN  /\ op = "next_phase" => s.phase < PhaseCap
           /\ state' = [state EXCEPT ![h.node] = Apply(op, s)]
           /\ panics' = IF Panics(op, s)
                          THEN panics \cup {[node |-> h.node, op |-> op]}
                          ELSE panics
    /\ handlers' = Take(handlers, h)
    /\ UNCHANGED << ring, lock, client, net >>

(* probe_raw, lock loop, arm Candidate otherwise: sleep, the MutexGuard still alive. *)
ProbeSleep(h) ==
    /\ BagIn(h, handlers)
    /\ lock[h.node] = NoHolder
    /\ state[h.node].kind = "Candidate"
    /\ state[h.node].phase # state[h.node].last_phase_probed
    /\ lock' = [lock EXCEPT ![h.node] = h]
    /\ UNCHANGED << ring, state, client, net, handlers, panics >>

(* ProbeWake with the guard never dropped. *)
ProbeWakeKeepsLock(i) ==
    /\ lock[i] # NoHolder
    /\ UNCHANGED vars

(* probe_raw, lock loop: the sleep is over, the guard is dropped at the end of the *)
(* loop body and the handler goes for the lock again.                             *)
ProbeWake(i) ==
    /\ lock[i] # NoHolder
    /\ lock' = [lock EXCEPT ![i] = NoHolder]
    /\ UNCHANGED << ring, state, client, net, handlers, panics >>

(* probe_raw, lock loop, arm `_`: Defeated or Leader, the handler is done. *)
ProbeBreak(h) ==
    /\ BagIn(h, handlers)
    /\ lock[h.node] = NoHolder
    /\ state[h.node].kind # "Candidate"
    /\ handlers' = Take(handlers, h)
    /\ UNCHANGED << ring, state, lock, client, net, panics >>

(* notify_elected_raw: a notification of another node's leadership is recorded with *)
(* defeat_with_leader (which takes the lock, and panics on a Leader) and forwarded;  *)
(* a notification of this node's own leadership is dropped.                         *)
NotifyElected(msg) ==
    /\ BagIn(msg, net)
    /\ msg.type = "Notify"
    /\ LET i == msg.dst
       IN  IF ring[i] # msg.leader_id
             THEN /\ lock[i] = NoHolder
                  /\ state' = [state EXCEPT ![i] = DefeatWithLeader(state[i], msg.leader_id)]
                  /\ IF DefeatPanics(state[i])
                       THEN /\ panics' = panics \cup {[node |-> i, op |-> "defeat_with_leader"]}
                            /\ net' = Take(net, msg)
                       ELSE /\ panics' = panics
                            /\ net' = Send(Take(net, msg),
                                           NotifyMessage(Addr(i, msg.headed_left),
                                                         msg.leader_id, msg.headed_left))
             ELSE /\ net' = Take(net, msg)
                  /\ UNCHANGED << state, panics >>
    /\ UNCHANGED << ring, lock, client, handlers >>

Next ==
    \/ \E i \in Nodes : node_client(i)
    \/ \E msg \in BagToSet(net) : ProbeReceive(msg)
    \/ \E h \in BagToSet(handlers) : ProbeCompare(h)
    \/ \E h \in BagToSet(handlers) : ProbeSleep(h)
    \/ \E i \in Nodes : ProbeWake(i)
    \/ \E h \in BagToSet(handlers) : ProbeBreak(h)
    \/ \E msg \in BagToSet(net) : NotifyElected(msg)

Spec == Init /\ [][Next]_vars

WideSpec == InitWide /\ [][Next]_vars

(* Scheduling of the tokio runtime: every task that can run is eventually run.  The   *)
(* tokio Mutex hands the lock to its waiters in the order they asked for it, so a     *)
(* client loop or a notification handler waiting for the lock gets it although probe  *)
(* handlers keep taking it for their sleep (strong fairness).                         *)
RingIndices == UNION {1 .. Len(r) : r \in Rings}

Fairness ==
    /\ \A i \in RingIndices : SF_vars(i \in Nodes /\ node_client(i))
    /\ \A i \in RingIndices : WF_vars(i \in Nodes /\ ProbeWake(i))
    /\ WF_vars(\E msg \in BagToSet(net) : ProbeReceive(msg))
    /\ WF_vars(\E h \in BagToSet(handlers) : ProbeCompare(h))
    /\ WF_vars(\E h \in BagToSet(handlers) : ProbeBreak(h))
    /\ SF_vars(\E msg \in BagToSet(net) : NotifyElected(msg))

FairSpec == Spec /\ Fairness

----------------------------------------------------------------------------
(* Definitions the properties share. *)

Max(S) == CHOOSE x \in S : \A y \in S : y <= x

MaxId == Max({ring[i] : i \in Nodes})

Leaders == {i \in Nodes : state[i].kind = "Leader"}

(* Every client loop has ended and no request is in flight or being handled. *)
Terminated ==
    /\ \A i \in Nodes : client[i] = "done"
    /\ net = EmptyBag
    /\ handlers = EmptyBag

----------------------------------------------------------------------------
(* C1: in every reachable state at most one node has role Leader. *)
Uniqueness == Cardinality(Leaders) <= 1

(* C2: whenever a node's role is Leader, its id is the maximum id in the ring. *)
MaxIdWinner == \A i \in Leaders : ring[i] = MaxId

(* C3: once the election has terminated, every node other than the leader has role *)
(* Defeated{leader: Some(max_id)}.                                                 *)
TotalityOnTermination ==
    Terminated => \A i \in Nodes \ Leaders : state[i] = Defeated(MaxId)

(* The election is over: the ring is quiet and no node is a Candidate. *)
Elected == Terminated /\ \A i \in Nodes : state[i].kind # "Candidate"

(* C4: under fair scheduling every election terminates: every node leaves Candidate, *)
(* every client loop exits, and no probe handler is left waiting.                    *)
Termination == <>[]Elected

(* An election on two nodes has terminated. *)
TerminationWitness == Elected /\ Len(ring) = 2

(* C5: a Leader stays Leader and a Defeated node stays Defeated across every step. *)
RoleTerminality ==
    [][\A i \in Nodes :
          /\ state[i].kind = "Leader" => state'[i].kind = "Leader"
          /\ state[i].kind = "Defeated" => state'[i].kind = "Defeated"]_vars

(* A Leader has handled another node's NotifyElected and is still Leader. *)
RoleTerminalityWitness ==
    \E p \in panics : p.op = "defeat_with_leader" /\ state[p.node].kind = "Leader"

(* C6: every Candidate has last_phase_probed <= phase and phase - last_phase_probed in {0, 1}. *)
CandidateGap ==
    \A i \in Nodes :
        state[i].kind = "Candidate" =>
            /\ state[i].last_phase_probed <= state[i].phase
            /\ state[i].phase - state[i].last_phase_probed \in {0, 1}

(* A Candidate that next_phase has advanced while a probe handler waits for its client. *)
CandidateGapWitness ==
    \E i \in Nodes :
        /\ state[i] = Candidate(2, 1)
        /\ lock[i] # NoHolder

(* C7: a Candidate's phase never decreases, and it changes only by next_phase: up by *)
(* exactly 1, from a phase that has been probed, last_phase_probed left alone.       *)
PhaseMonotonicity ==
    [][\A i \in Nodes :
          (state[i].kind = "Candidate" /\ state'[i].kind = "Candidate") =>
              \/ state'[i].phase = state[i].phase
              \/ /\ state'[i].phase = state[i].phase + 1
                 /\ state[i].last_phase_probed = state[i].phase
                 /\ state'[i].last_phase_probed = state[i].last_phase_probed]_vars

(* A Candidate whose phase has been advanced and probed. *)
PhaseMonotonicityWitness == \E i \in Nodes : state[i] = Candidate(2, 2)

(* The probes in a bag that carry sender_id. *)
ProbesOf(bag, sender_id) ==
    LET S == {m \in BagToSet(bag) : m.type = "Probe" /\ m.sender_id = sender_id}
    IN  BagCardinality([m \in S |-> bag[m]])

(* A step puts probe m in flight as the relay of a probe m0 it takes from the net. *)
Relays(m) ==
    \E m0 \in BagToSet(net) :
        /\ m0.type = "Probe"
        /\ m0.sender_id # ring[m0.dst]
        /\ CopiesIn(m0, net') < CopiesIn(m0, net)
        /\ m = ProbeMessage(Addr(m0.dst, m0.headed_left), m0.sender_id, m0.headed_left, m0.phase)

(* C8: a node that is Defeated or Leader originates no probe: the probes in flight   *)
(* that carry its id never become more, and every probe a step puts in flight is the *)
(* relay of a received one or carries the id of a node that is Candidate.            *)
ForwardingConservation ==
    [][/\ \A i \in Nodes :
            state[i].kind # "Candidate" => ProbesOf(net', ring[i]) <= ProbesOf(net, ring[i])
       /\ \A m \in BagToSet(net') :
            (m.type = "Probe" /\ CopiesIn(m, net') > CopiesIn(m, net)) =>
                \/ Relays(m)
                \/ \E i \in Nodes : state[i].kind = "Candidate" /\ m.sender_id = ring[i]]_vars

(* A Defeated node whose client loop has ended has relayed another node's probe. *)
ForwardingConservationWitness ==
    \E i \in Nodes :
        /\ state[i].kind = "Defeated"
        /\ client[i] = "done"
        /\ \E m \in BagToSet(net) :
              /\ m.type = "Probe"
              /\ m.sender_id # ring[i]
              /\ m.phase = 2
              /\ m.dst = Addr(i, m.headed_left)

(* C9: on a ring of one node the node becomes Leader, from phase 1, and is never Defeated. *)
SingletonElectsItself ==
    /\ [](Len(ring) = 1 => state[1] \in {Candidate(1, 0), Candidate(1, 1), Leader})
    /\ (Len(ring) = 1) ~> (state[1] = Leader)

(* The only node of a ring is Leader. *)
SingletonWitness == Len(ring) = 1 /\ state[1] = Leader

(* A step in which node i's client loop observes Leader and exits. *)
ClientExitsAsLeader(i) ==
    state[i].kind = "Leader" /\ client[i] = "run" /\ client'[i] = "done"

NoFatalViolation == panics = {}

(* C12: a node's lock is never held across the bounded wait: no probe handler *)
(* sleeps with the lock, so the client can take it while a handler waits.     *)
LockFreeAcrossWait ==
    \A i \in Nodes :
        (\E h \in BagToSet(handlers) :
            /\ h.node = i
            /\ state[i].kind = "Candidate"
            /\ state[i].last_phase_probed # state[i].phase)
        => lock[i] = NoHolder

(* A step in which the probe handler h ends its lock loop. *)
Concludes(h) == CopiesIn(h, handlers') < CopiesIn(h, handlers)

(* C13: a probe handler concludes on a Candidate only when phase is last_phase_probed, *)
(* and then the role becomes Candidate{p+1, p} if id < sender_id, Leader if they are   *)
(* equal, Defeated{None} if id > sender_id; while last_phase_probed is not phase no    *)
(* handler changes the role.                                                           *)
ProbeDecisionRule ==
    [][\A h \in BagToSet(handlers) :
          (Concludes(h) /\ state[h.node].kind = "Candidate") =>
              LET p == state[h.node].phase
                  id == ring[h.node]
              IN  /\ state[h.node].last_phase_probed = p
                  /\ id < h.sender_id => state'[h.node] = Candidate(p + 1, p)
                  /\ id = h.sender_id => state'[h.node] = Leader
                  /\ id > h.sender_id => state'[h.node] = Defeated(None)]_vars

(* One node has been advanced by a larger id's probe, another defeated by a smaller id's. *)
ProbeDecisionRuleWitness ==
    /\ \E i \in Nodes : state[i] = Candidate(2, 1)
    /\ \E j \in Nodes : state[j] = Defeated(None)

(* A step in which the server of m.dst takes the probe m and relays it. *)
RelaysOn(m) ==
    /\ m.type = "Probe"
    /\ CopiesIn(m, net') < CopiesIn(m, net)
    /\ LET f == ProbeMessage(Addr(m.dst, m.headed_left), m.sender_id, m.headed_left, m.phase)
       IN  CopiesIn(f, net') > CopiesIn(f, net)

(* C14: a probe is relayed only by a node that is Defeated or Leader when it handles it. *)
RelayedOnlyByNonCandidates ==
    [][\A m \in BagToSet(net) : RelaysOn(m) => state[m.dst].kind # "Candidate"]_vars

ProbesOfPhase(bag, sender_id, phase) ==
    LET S == {m \in BagToSet(bag) :
                m.type = "Probe" /\ m.sender_id = sender_id /\ m.phase = phase}
    IN  BagCardinality([m \in S |-> bag[m]])

(* C17: at most one probe with a given sender_id and phase is in flight, and a probe *)
(* taken by the node whose id is its sender_id is not sent on.                       *)
OneProbePerSenderAndPhase ==
    [][/\ \A m \in BagToSet(net') :
            m.type = "Probe" => ProbesOfPhase(net', m.sender_id, m.phase) <= 1
       /\ \A m \in BagToSet(net) :
            (/\ m.type = "Probe"
             /\ CopiesIn(m, net') < CopiesIn(m, net)
             /\ m.sender_id = ring[m.dst]) =>
                ProbesOfPhase(net', m.sender_id, m.phase) = 0]_vars

(* One node's probes of phase 1 and of phase 2 are in flight together. *)
OneProbePerSenderAndPhaseWitness ==
    \E m1, m2 \in BagToSet(net) :
        /\ m1.type = "Probe" /\ m2.type = "Probe"
        /\ m1.sender_id = m2.sender_id
        /\ m1.phase = 1 /\ m2.phase = 2

(* C18: a node drops a NotifyElected that names itself, with no state change; any other *)
(* node becomes Defeated{Some(leader_id)} and forwards the same notification once on    *)
(* the link of its direction.                                                           *)
NotificationSweep ==
    [][\A m \in BagToSet(net) :
          (m.type = "Notify" /\ CopiesIn(m, net') < CopiesIn(m, net)) =>
              IF m.leader_id = ring[m.dst]
                THEN state' = state /\ net' = Take(net, m)
                ELSE /\ state'[m.dst] = Defeated(m.leader_id)
                     /\ net' = Send(Take(net, m),
                                    NotifyMessage(IF m.headed_left THEN LeftOf(m.dst)
                                                                   ELSE RightOf(m.dst),
                                                  m.leader_id, m.headed_left))]_vars

(* A step in which node i takes the notification m of another node's leadership. *)
TakesNotification(i, m) ==
    /\ m.type = "Notify"
    /\ m.dst = i
    /\ m.leader_id # ring[i]
    /\ CopiesIn(m, net') < CopiesIn(m, net)

(* C19: a Defeated node's stored leader is None until the node handles a NotifyElected, *)
(* which sets it to Some(leader_id), and it is never None again.                        *)
LeaderRecordKept ==
    [][\A i \in Nodes :
          state[i].kind = "Defeated" =>
              /\ state[i].leader # None =>
                    state'[i].kind = "Defeated" /\ state'[i].leader # None
              /\ (state[i].leader = None /\ state'[i] # state[i]) =>
                    \E m \in BagToSet(net) :
                        TakesNotification(i, m) /\ state'[i] = Defeated(m.leader_id)
              /\ \A m \in BagToSet(net) :
                    TakesNotification(i, m) => state'[i] = Defeated(m.leader_id)]_vars

(* The election is over and a node that a probe had defeated has its leader recorded. *)
LeaderRecordKeptWitness ==
    /\ Terminated
    /\ \E i \in Nodes : state[i].kind = "Defeated" /\ state[i].leader # None

(* What handling a probe of sender_id makes of the role s of the node id: the phase the *)
(* probe carries is no argument of it.                                                  *)
Outcome(s, id, sender_id) ==
    CASE id < sender_id -> Candidate(s.phase + 1, s.last_phase_probed)
      [] id = sender_id -> Leader
      [] id > sender_id -> Defeated(None)

(* C20: the role a probe leaves at its receiver and whether the probe is forwarded do *)
(* not depend on the phase the probe carries.                                         *)
PhaseIndependence ==
    [][/\ \A h \in BagToSet(handlers) :
            (Concludes(h) /\ state[h.node].kind = "Candidate") =>
                state'[h.node] = Outcome(state[h.node], ring[h.node], h.sender_id)
       /\ \A m \in BagToSet(net) :
            (m.type = "Probe" /\ CopiesIn(m, net') < CopiesIn(m, net)) =>
                (RelaysOn(m) <=> m.sender_id # ring[m.dst])]_vars

(* A node has become Leader by its probe of an earlier phase: the probe of its last *)
(* phase is still in flight.                                                        *)
PhaseIndependenceWitness ==
    \E i \in Nodes :
        /\ state[i].kind = "Leader"
        /\ \E m \in BagToSet(net) :
              m.type = "Probe" /\ m.sender_id = ring[i] /\ m.phase = 2

====
